---- MODULE Spec2Model ----
(***************************************************************************)
(* A model of dsl.GroupedEntries (src/dsl/grouped_entries.go): the ordered *)
(* multi-map of log entries, its Filter, the anchor selection and timeline *)
(* construction of ConstructTimelines, and the textual dump.               *)
(*                                                                         *)
(* Go slices are 0-based; TLA+ sequences are 1-based.  lookup keeps the    *)
(* Go (0-based) indices, and every use of one as a position adds 1.        *)
(***************************************************************************)
EXTENDS Integers, Sequences, FiniteSets, TLC

\* ------------------------------------------------------------------ bounds
MaxCalls == 3
MaxBatch == 2
MaxEntries == 3
MaxTime == 2
MaxFail == 2
MaxFilteredCalls == 1

\* The key values handed to Append/AppendEntries (Go: interface{}).
KeyValues == {"A", "B"}
Messages == {"x", "y"}

\* --------------------------------------------------- external collaborators
\* dsl.Entry: a log record; its natural order is by Timestamp.
Entry == [Timestamp : 1..MaxTime, Message : Messages]

\* Go's Entry{}, returned with found == false.
ZeroEntry == [Timestamp |-> 0, Message |-> ""]

\* dsl.Entries values handed to AppendEntries in one call.
Batches == UNION {[1..n -> Entry] : n \in 0..MaxBatch}

\* dsl.Matcher: a predicate over one entry, given by the entries it accepts;
\* the matchers used are those that select on the message.
Matchers == {{e \in Entry : e.Message \in ms} : ms \in SUBSET Messages}

Match(matcher, e) == e \in matcher

\* dsl.TimelineDescription: milestone descriptors, element 0 the anchor's.
Descriptions ==
    {<<[Matcher |-> m]>> : m \in Matchers}
        \cup {<<[Matcher |-> m], [Matcher |-> Entry]>> : m \in Matchers}

Nil == "nil"

\* Entries.Less (sort.Interface): earlier timestamp first.
Less(a, b) == a.Timestamp < b.Timestamp

\* Entries.Filter: the sub-sequence of matching entries, order kept.
EntriesFilter(entries, matcher) ==
    SelectSeq(entries, LAMBDA e : Match(matcher, e))

\* Entries.First: the first matching entry in sequence order.
EntriesFirst(entries, matcher) ==
    LET hits == {i \in 1..Len(entries) : Match(matcher, entries[i])}
    IN IF hits = {}
       THEN [entry |-> ZeroEntry, found |-> FALSE]
       ELSE [entry |-> entries[CHOOSE i \in hits : \A j \in hits : i <= j],
             found |-> TRUE]

\* Entries.ConstructTimeline: opaque to the core; the timeline is kept as the
\* record of what it was constructed from, with the Annotation still unset.
EntriesConstructTimeline(entries, description, zeroEntry) ==
    [Entries |-> entries, Description |-> description,
     ZeroEntry |-> zeroEntry, Annotation |-> Nil]

\* io.Writer: the n-th Write on sink w fails iff n is in w.bad; every attempted
\* write is logged with its outcome.
SinkWrite(w, rec) ==
    LET n == Len(w.log) + 1
        ok == n \notin w.bad
    IN [w |-> [w EXCEPT !.log = Append(@, [rec EXCEPT !.ok = ok])],
        err |-> IF ok THEN Nil ELSE "write failed"]

\* Entries.WriteLagerFormatTo: one write per entry, in order; the first
\* failing write is returned at once.
EntriesWriteLagerFormatTo(entries, key, w0) ==
    LET run[i \in 0..Len(entries)] ==
            IF i = 0 THEN [w |-> w0, err |-> Nil]
            ELSE LET p == run[i - 1]
                 IN IF p.err # Nil THEN p
                    ELSE SinkWrite(p.w, [kind |-> "entry", key |-> key,
                                         entry |-> entries[i], ok |-> TRUE])
    IN run[Len(entries)]

\* ------------------------------------------------------------ GroupedEntries
NewGroupedEntries ==
    [Keys |-> <<>>, Entries |-> <<>>, lookup |-> [k \in {} |-> 0]]

\* A plausible slip: the key is always taken as unseen.
AppendEntriesNoLookup(g, key, entries) ==
    LET g1 == [Keys |-> Append(g.Keys, key),
               Entries |-> Append(g.Entries, <<>>),
               lookup |-> [k \in DOMAIN g.lookup \cup {key} |->
                              IF k = key THEN Len(g.Keys) ELSE g.lookup[k]]]
    IN [g1 EXCEPT !.Entries[g1.lookup[key] + 1] = @ \o entries]

\* A plausible slip: the group is assigned the new entries, not extended.
AppendEntriesOverwrite(g, key, entries) ==
    LET hasKey == key \in DOMAIN g.lookup
        g1 == IF ~hasKey THEN AppendEntriesNoLookup(g, key, <<>>) ELSE g
    IN [g1 EXCEPT !.Entries[g1.lookup[key] + 1] = entries]

\* A plausible slip: a new key is put in front of Keys and Entries.
AppendEntriesInFront(g, key, entries) ==
    LET hasKey == key \in DOMAIN g.lookup
        g1 == IF ~hasKey
              THEN [Keys |-> <<key>> \o g.Keys,
                    Entries |-> <<<<>>>> \o g.Entries,
                    lookup |-> [k \in DOMAIN g.lookup \cup {key} |->
                                   IF k = key THEN 0 ELSE g.lookup[k] + 1]]
              ELSE g
    IN [g1 EXCEPT !.Entries[g1.lookup[key] + 1] = @ \o entries]

\* A plausible slip: a call without entries returns at once.
AppendEntriesSkipEmpty(g, key, entries) ==
    IF Len(entries) = 0 THEN g
    ELSE LET hasKey == key \in DOMAIN g.lookup
             g1 == IF ~hasKey THEN AppendEntriesNoLookup(g, key, <<>>) ELSE g
         IN [g1 EXCEPT !.Entries[g1.lookup[key] + 1] = @ \o entries]

AppendEntries(g, key, entries) ==
    LET hasKey == key \in DOMAIN g.lookup
        g1 == IF ~hasKey
              THEN [Keys |-> Append(g.Keys, key),
                    Entries |-> Append(g.Entries, <<>>),
                    lookup |-> [k \in DOMAIN g.lookup \cup {key} |->
                                   IF k = key THEN (Len(g.Keys) + 1) - 1
                                   ELSE g.lookup[k]]]
              ELSE g
    IN [g1 EXCEPT !.Entries[g1.lookup[key] + 1] = @ \o entries]

Lookup(g, key) ==
    IF key \notin DOMAIN g.lookup
    THEN [entries |-> <<>>, found |-> FALSE]
    ELSE [entries |-> g.Entries[g.lookup[key] + 1], found |-> TRUE]

\* A plausible slip: a group is kept although no entry of it matched.
FilterVisitKeepEmpty(c, filteredGroups, key, entries) ==
    [st |-> AppendEntries(filteredGroups, key, EntriesFilter(entries, c.matcher)),
     err |-> Nil]

\* The function literal Filter hands to EachGroup; c holds the variables it
\* closes over (the matcher), filteredGroups the map it appends to.
FilterVisit(c, filteredGroups, key, entries) ==
    LET filtered == EntriesFilter(entries, c.matcher)
    IN [st |-> IF Len(filtered) > 0
               THEN AppendEntries(filteredGroups, key, filtered)
               ELSE filteredGroups,
        err |-> Nil]

\* A plausible slip: a group without an anchor match gets no timeline.
ConstructTimelinesVisitSkip(c, timelines, key, entries) ==
    LET timeline == EntriesConstructTimeline(entries, c.description, c.firstEntry)
    IN [st |-> IF EntriesFirst(entries, c.description[1].Matcher).found
               THEN Append(timelines, [timeline EXCEPT !.Annotation = key])
               ELSE timelines,
        err |-> Nil]

\* A plausible slip: each group is anchored to its own first match.
ConstructTimelinesVisitOwnAnchor(c, timelines, key, entries) ==
    LET own == EntriesFirst(entries, c.description[1].Matcher)
        timeline == EntriesConstructTimeline(entries, c.description,
                        IF own.found THEN own.entry ELSE c.firstEntry)
    IN [st |-> Append(timelines, [timeline EXCEPT !.Annotation = key]),
        err |-> Nil]

\* The function literal ConstructTimelines hands to EachGroup; it closes over
\* description and firstEntry and appends to timelines.
ConstructTimelinesVisit(c, timelines, key, entries) ==
    LET timeline == EntriesConstructTimeline(entries, c.description, c.firstEntry)
    IN [st |-> Append(timelines, [timeline EXCEPT !.Annotation = key]),
        err |-> Nil]

\* The function literal WriteLagerFormatTo hands to EachGroup; it writes to
\* the sink w.  The error of the key line's fmt.Fprintf is dropped.
WriteLagerFormatToVisit(c, w, key, entries) ==
    LET k == SinkWrite(w, [kind |-> "key", key |-> key,
                           entry |-> ZeroEntry, ok |-> TRUE])
        r == EntriesWriteLagerFormatTo(entries, key, k.w)
    IN [st |-> r.w, err |-> r.err]

\* A visitor supplied by a caller of EachGroup: it records each call in
\* visited and returns an error on the calls whose number is in c.failOn.
VisitorVisit(c, visited, key, entries) ==
    LET n == Len(visited) + 1
    IN [st |-> Append(visited, <<key, entries>>),
        err |-> IF n \in c.failOn
                THEN "visit " \o ToString(n) \o " failed"
                ELSE Nil]

\* The call f(key, entries) of a function value f: f is the record of the
\* literal it came from (fn) and of the variables it closes over; st is the
\* variable the literal updates.  The result is the updated st and the error.
Call(f, st, key, entries) ==
    CASE f.fn = "Filter" -> FilterVisit(f, st, key, entries)
      [] f.fn = "ConstructTimelines" -> ConstructTimelinesVisit(f, st, key, entries)
      [] f.fn = "WriteLagerFormatTo" -> WriteLagerFormatToVisit(f, st, key, entries)
      [] f.fn = "Visitor" -> VisitorVisit(f, st, key, entries)

\* A plausible slip: the loop goes on after an error and returns the last one.
EachGroupNoAbort(g, f, init) ==
    LET run[i \in 0..Len(g.Keys)] ==
            IF i = 0 THEN [st |-> init, err |-> Nil]
            ELSE LET p == run[i - 1]
                     r == Call(f, p.st, g.Keys[i], g.Entries[i])
                 IN [st |-> r.st, err |-> IF r.err # Nil THEN r.err ELSE p.err]
    IN run[Len(g.Keys)]

\* EachGroup: f is called on (Keys[i], Entries[i]) for i = 0, 1, ...; the
\* first non-nil error ends the loop and is returned.
EachGroup(g, f, init) ==
    LET run[i \in 0..Len(g.Keys)] ==
            IF i = 0 THEN [st |-> init, err |-> Nil]
            ELSE LET p == run[i - 1]
                 IN IF p.err # Nil THEN p
                    ELSE Call(f, p.st, g.Keys[i], g.Entries[i])
    IN run[Len(g.Keys)]

\* A plausible slip: the result starts as the receiver, not as a new map.
FilterIntoReceiver(g, m) ==
    EachGroup(g, [fn |-> "Filter", matcher |-> m], g).st

Filter(g, m) ==
    EachGroup(g, [fn |-> "Filter", matcher |-> m], NewGroupedEntries).st

\* A plausible slip: every matching entry of a group is taken as a candidate.
FirstsAll(g, m) ==
    LET run[i \in 0..Len(g.Entries)] ==
            IF i = 0 THEN <<>>
            ELSE run[i - 1] \o EntriesFilter(g.Entries[i], m)
    IN run[Len(g.Entries)]

\* The candidates of first: one per group that has a match, in group order.
Firsts(g, m) ==
    LET run[i \in 0..Len(g.Entries)] ==
            IF i = 0 THEN <<>>
            ELSE LET r == EntriesFirst(g.Entries[i], m)
                 IN IF r.found THEN Append(run[i - 1], r.entry) ELSE run[i - 1]
    IN run[Len(g.Entries)]

\* sort.Sort is not stable: firsts[0] after the sort is some candidate that
\* no other candidate is Less than.
SortedHeads(firsts) ==
    {firsts[i] : i \in {i \in 1..Len(firsts) :
                          \A j \in 1..Len(firsts) : ~Less(firsts[j], firsts[i])}}

\* A plausible slip: the sort is left out and firsts[0] returned as collected.
firstUnsorted(g, m) ==
    LET firsts == Firsts(g, m)
    IN IF Len(firsts) = 0
       THEN {[entry |-> ZeroEntry, found |-> FALSE]}
       ELSE {[entry |-> firsts[1], found |-> TRUE]}

\* first: the set of results the call can return.
first(g, m) ==
    LET firsts == Firsts(g, m)
    IN IF Len(firsts) = 0
       THEN {[entry |-> ZeroEntry, found |-> FALSE]}
       ELSE {[entry |-> e, found |-> TRUE] : e \in SortedHeads(firsts)}

\* A plausible slip: the found flag of first is not looked at.
ConstructTimelinesNoCheck(g, desc, r) ==
    [timelines |->
        EachGroup(g, [fn |-> "ConstructTimelines", description |-> desc,
                      firstEntry |-> r.entry], <<>>).st,
     err |-> Nil]

\* ConstructTimelines, given the result r of its call of first.
ConstructTimelinesWith(g, desc, r) ==
    IF ~r.found
    THEN [timelines |-> <<>>,
          err |-> "unable to find first entry to anchor timelines"]
    ELSE [timelines |->
             EachGroup(g, [fn |-> "ConstructTimelines", description |-> desc,
                           firstEntry |-> r.entry], <<>>).st,
          err |-> Nil]

\* WriteLagerFormatTo: the error EachGroup returns is dropped; the method
\* returns nil.
WriteLagerFormatTo(g, w0) ==
    [w |-> EachGroup(g, [fn |-> "WriteLagerFormatTo"], w0).st, err |-> Nil]

\* ------------------------------------------------------------------- state
VARIABLES
    Keys, Entries, lookup,   \* the receiver g
    calls,                   \* history: the <<key, entries>> of each append call
    op,                      \* the operation last called on g
    matcher,                 \* Filter's argument
    filteredGroups,          \* Filter's result
    description,             \* ConstructTimelines' argument
    firstEntry, found,       \* ConstructTimelines' locals
    timelines, err,          \* the returned pair (err also of the dump
                             \* and of EachGroup)
    w,                       \* the dump's sink
    failOn, visited,         \* EachGroup's visitor: the calls it fails on and
                             \* the calls it received
    fcalls                   \* history: the append calls on filteredGroups

vars == <<Keys, Entries, lookup, calls, op, matcher, filteredGroups,
          description, firstEntry, found, timelines, err, w, failOn, visited,
          fcalls>>

g == [Keys |-> Keys, Entries |-> Entries, lookup |-> lookup]

NoSink == [bad |-> {}, log |-> <<>>]

NoResults ==
    /\ matcher' = {}
    /\ filteredGroups' = NewGroupedEntries
    /\ description' = <<>>
    /\ firstEntry' = ZeroEntry
    /\ found' = FALSE
    /\ timelines' = <<>>
    /\ err' = Nil
    /\ w' = NoSink
    /\ failOn' = {}
    /\ visited' = <<>>
    /\ fcalls' = <<>>

Init ==
    /\ Keys = NewGroupedEntries.Keys
    /\ Entries = NewGroupedEntries.Entries
    /\ lookup = NewGroupedEntries.lookup
    /\ calls = <<>>
    /\ op = "NewGroupedEntries"
    /\ matcher = {}
    /\ filteredGroups = NewGroupedEntries
    /\ description = <<>>
    /\ firstEntry = ZeroEntry
    /\ found = FALSE
    /\ timelines = <<>>
    /\ err = Nil
    /\ w = NoSink
    /\ failOn = {}
    /\ visited = <<>>
    /\ fcalls = <<>>

\* The number of entries appended so far.
Appended ==
    LET sum[i \in 0..Len(calls)] ==
            IF i = 0 THEN 0 ELSE sum[i - 1] + Len(calls[i][2])
    IN sum[Len(calls)]

SetG(r) ==
    /\ Keys' = r.Keys
    /\ Entries' = r.Entries
    /\ lookup' = r.lookup

\* g.Append(key, entry): the call g.AppendEntries(key, Entries{entry})
AppendStep ==
    /\ Len(calls) < MaxCalls
    /\ Appended + 1 <= MaxEntries
    /\ \E key \in KeyValues, entry \in Entry :
          /\ SetG(AppendEntries(g, key, <<entry>>))
          /\ calls' = Append(calls, <<key, <<entry>>>>)
    /\ op' = "AppendEntries"
    /\ NoResults

\* g.AppendEntries(key, entries)
AppendEntriesStep ==
    /\ Len(calls) < MaxCalls
    /\ \E key \in KeyValues, entries \in Batches :
          /\ Appended + Len(entries) <= MaxEntries
          /\ SetG(AppendEntries(g, key, entries))
          /\ calls' = Append(calls, <<key, entries>>)
    /\ op' = "AppendEntries"
    /\ NoResults

\* A plausible slip: Filter builds its result in the receiver itself.
FilterStepInPlace ==
    /\ \E m \in Matchers :
          /\ matcher' = m
          /\ filteredGroups' = Filter(g, m)
          /\ SetG(Filter(g, m))
    /\ op' = "Filter"
    /\ description' = <<>>
    /\ firstEntry' = ZeroEntry
    /\ found' = FALSE
    /\ timelines' = <<>>
    /\ err' = Nil
    /\ w' = NoSink
    /\ failOn' = {}
    /\ visited' = <<>>
    /\ fcalls' = <<>>
    /\ UNCHANGED calls

\* g.Filter(m)
FilterStep ==
    /\ \E m \in Matchers :
          /\ matcher' = m
          /\ filteredGroups' = Filter(g, m)
    /\ op' = "Filter"
    /\ description' = <<>>
    /\ firstEntry' = ZeroEntry
    /\ found' = FALSE
    /\ timelines' = <<>>
    /\ err' = Nil
    /\ w' = NoSink
    /\ failOn' = {}
    /\ visited' = <<>>
    /\ fcalls' = <<>>
    /\ UNCHANGED <<Keys, Entries, lookup, calls>>

\* entries in the order of Less, entries of equal time in their order.
SortedEntries(entries) ==
    LET run[t \in 0..MaxTime] ==
            IF t = 0 THEN <<>>
            ELSE run[t - 1] \o SelectSeq(entries, LAMBDA e : e.Timestamp = t)
    IN run[MaxTime]

\* A plausible slip: the anchor is looked for by sorting each group of the
\* receiver in place, not the separate list of candidates.
ConstructTimelinesStepSortsGroups ==
    /\ \E desc \in Descriptions :
          LET sorted == [g EXCEPT !.Entries =
                            [i \in 1..Len(g.Entries) |-> SortedEntries(g.Entries[i])]]
          IN \E r \in first(sorted, desc[1].Matcher) :
                LET res == ConstructTimelinesWith(sorted, desc, r)
                IN /\ description' = desc
                   /\ firstEntry' = r.entry
                   /\ found' = r.found
                   /\ timelines' = res.timelines
                   /\ err' = res.err
                   /\ Entries' = sorted.Entries
    /\ op' = "ConstructTimelines"
    /\ matcher' = {}
    /\ filteredGroups' = NewGroupedEntries
    /\ w' = NoSink
    /\ failOn' = {}
    /\ visited' = <<>>
    /\ fcalls' = <<>>
    /\ UNCHANGED <<Keys, lookup, calls>>

\* g.ConstructTimelines(desc)
ConstructTimelinesStep ==
    /\ \E desc \in Descriptions :
          \E r \in first(g, desc[1].Matcher) :
             LET res == ConstructTimelinesWith(g, desc, r)
             IN /\ description' = desc
                /\ firstEntry' = r.entry
                /\ found' = r.found
                /\ timelines' = res.timelines
                /\ err' = res.err
    /\ op' = "ConstructTimelines"
    /\ matcher' = {}
    /\ filteredGroups' = NewGroupedEntries
    /\ w' = NoSink
    /\ failOn' = {}
    /\ visited' = <<>>
    /\ fcalls' = <<>>
    /\ UNCHANGED <<Keys, Entries, lookup, calls>>

\* g.WriteLagerFormatTo(sink), for a sink failing on the writes in bad
WriteLagerFormatToStep ==
    /\ \E bad \in SUBSET (1..MaxFail) :
          LET res == WriteLagerFormatTo(g, [bad |-> bad, log |-> <<>>])
          IN /\ w' = res.w
             /\ err' = res.err
    /\ op' = "WriteLagerFormatTo"
    /\ matcher' = {}
    /\ filteredGroups' = NewGroupedEntries
    /\ description' = <<>>
    /\ firstEntry' = ZeroEntry
    /\ found' = FALSE
    /\ timelines' = <<>>
    /\ failOn' = {}
    /\ visited' = <<>>
    /\ fcalls' = <<>>
    /\ UNCHANGED <<Keys, Entries, lookup, calls>>

\* g.EachGroup(f), for a visitor f failing on the calls in bad
EachGroupStep ==
    /\ \E bad \in SUBSET (1..Len(Keys)) :
          LET res == EachGroup(g, [fn |-> "Visitor", failOn |-> bad], <<>>)
          IN /\ failOn' = bad
             /\ visited' = res.st
             /\ err' = res.err
    /\ op' = "EachGroup"
    /\ matcher' = {}
    /\ filteredGroups' = NewGroupedEntries
    /\ description' = <<>>
    /\ firstEntry' = ZeroEntry
    /\ found' = FALSE
    /\ timelines' = <<>>
    /\ w' = NoSink
    /\ fcalls' = <<>>
    /\ UNCHANGED <<Keys, Entries, lookup, calls>>

Next ==
    \/ AppendStep
    \/ AppendEntriesStep
    \/ FilterStep
    \/ ConstructTimelinesStep
    \/ WriteLagerFormatToStep
    \/ EachGroupStep

Spec == Init /\ [][Next]_vars

\* A caller that keeps the map Filter returned and goes on appending to the
\* receiver and to the returned map.
HoldsFiltered ==
    op \in {"Filter", "AppendEntries after Filter", "filteredGroups.AppendEntries"}

\* g.Append(key, entry), the map Filter returned still held
KeepAppendStep ==
    /\ HoldsFiltered
    /\ Len(calls) < MaxCalls
    /\ Appended + 1 <= MaxEntries
    /\ \E key \in KeyValues, entry \in Entry :
          /\ SetG(AppendEntries(g, key, <<entry>>))
          /\ calls' = Append(calls, <<key, <<entry>>>>)
    /\ op' = "AppendEntries after Filter"
    /\ UNCHANGED <<matcher, filteredGroups, description, firstEntry, found,
                   timelines, err, w, failOn, visited, fcalls>>

\* filteredGroups.Append(key, entry), on the map Filter returned
FilteredAppendStep ==
    /\ HoldsFiltered
    /\ Len(fcalls) < MaxFilteredCalls
    /\ \E key \in KeyValues, entry \in Entry :
          /\ filteredGroups' = AppendEntries(filteredGroups, key, <<entry>>)
          /\ fcalls' = Append(fcalls, <<key, <<entry>>>>)
    /\ op' = "filteredGroups.AppendEntries"
    /\ UNCHANGED <<Keys, Entries, lookup, calls, matcher, description,
                   firstEntry, found, timelines, err, w, failOn, visited>>

NextFilter ==
    \/ AppendStep
    \/ FilterStep
    \/ KeepAppendStep
    \/ FilteredAppendStep

SpecFilter == Init /\ [][NextFilter]_vars

\* ------------------------------------------------------- what the claims use
\* The keys of the append calls, in call order.
CallKeys == [i \in 1..Len(calls) |-> calls[i][1]]

\* The distinct elements of s, ordered by first occurrence.
FirstOccurrences(s) ==
    LET run[i \in 0..Len(s)] ==
            IF i = 0 THEN <<>>
            ELSE IF \E j \in 1..(i - 1) : s[j] = s[i]
                 THEN run[i - 1]
                 ELSE Append(run[i - 1], s[i])
    IN run[Len(s)]

\* The entries of all calls made under key k, concatenated in call order.
AppendedUnder(k) ==
    LET run[i \in 0..Len(calls)] ==
            IF i = 0 THEN <<>>
            ELSE IF calls[i][1] = k THEN run[i - 1] \o calls[i][2]
                 ELSE run[i - 1]
    IN run[Len(calls)]

WellFormed(m) ==
    /\ Len(m.Keys) = Len(m.Entries)
    /\ \A i, j \in 1..Len(m.Keys) : m.Keys[i] = m.Keys[j] => i = j
    /\ DOMAIN m.lookup = {m.Keys[i] : i \in 1..Len(m.Keys)}
    /\ \A k \in DOMAIN m.lookup :
          \A i \in 0..(Len(m.Keys) - 1) : (m.Keys[i + 1] = k) <=> (i = m.lookup[k])

\* C1: in every state reached by appends, and in every map Filter returns,
\* len(Keys) == len(Entries), no key occurs twice in Keys, the domain of
\* lookup is the set of keys in Keys, and lookup[k] is the one index i with
\* Keys[i] == k.
Inv_C1 == WellFormed(g) /\ WellFormed(filteredGroups)

\* A Filter result that dropped the receiver's first group, so that the
\* surviving key's index differs between the two maps.
Witness_C1 ==
    /\ op = "Filter"
    /\ Len(calls) = MaxCalls
    /\ Len(Keys) = 2
    /\ Len(filteredGroups.Keys) = 1
    /\ filteredGroups.Keys[1] = Keys[2]

\* C2: Keys is the sequence of the distinct keys of the append calls, ordered
\* by each key's first call; a later call repeating a key leaves Keys as is.
KeysOrder_C2 == Keys = FirstOccurrences(CallKeys)

\* A key is used, then another, then the first again.
Witness_C2 ==
    /\ Len(calls) = 3
    /\ calls[1][1] = calls[3][1]
    /\ calls[1][1] # calls[2][1]
    /\ Keys = <<calls[1][1], calls[2][1]>>

\* C3: Lookup(k) of a key used in some call returns found and the entries of
\* all calls under k concatenated in call order (duplicates kept, other keys'
\* entries left out); Lookup(k) of a key never used returns not found.
Lookup_C3 ==
    \A k \in KeyValues :
       IF \E i \in 1..Len(calls) : calls[i][1] = k
       THEN Lookup(g, k) = [entries |-> AppendedUnder(k), found |-> TRUE]
       ELSE ~Lookup(g, k).found

\* Two calls under one key around a call under another, the key's group
\* holding the same entry twice.
Witness_C3 ==
    /\ Len(calls) = 3
    /\ calls[1][1] = calls[3][1]
    /\ calls[1][1] # calls[2][1]
    /\ Len(calls[2][2]) = 1
    /\ Lookup(g, calls[1][1]).entries = <<calls[1][2][1], calls[1][2][1]>>

\* Grouping a flat sequence of <<key, entry>> pairs: Append(key, entry) for
\* each pair in order, on a fresh map.
GroupBy(flat) ==
    LET run[i \in 0..Len(flat)] ==
            IF i = 0 THEN NewGroupedEntries
            ELSE AppendEntries(run[i - 1], flat[i][1], <<flat[i][2]>>)
    IN run[Len(flat)]

\* The calls were single-entry appends whose keys are a function of the entry.
GroupedByKeyFunction ==
    /\ \A i \in 1..Len(calls) : Len(calls[i][2]) = 1
    /\ \A i, j \in 1..Len(calls) :
          calls[i][2] = calls[j][2] => calls[i][1] = calls[j][1]

\* The flat sequence the map was grouped from, each entry with its key.
Flat == [i \in 1..Len(calls) |-> <<calls[i][1], calls[i][2][1]>>]

\* C4: filtering commutes with grouping: grouping a flat sequence by a key
\* function and then calling Filter(matcher) gives the same Keys and the same
\* per-key entries as keeping the matching entries of the flat sequence and
\* then grouping them.
FilterCommutes_C4 ==
    (op = "Filter" /\ GroupedByKeyFunction) =>
        LET other == GroupBy(SelectSeq(Flat, LAMBDA p : Match(matcher, p[2])))
        IN /\ filteredGroups.Keys = other.Keys
           /\ filteredGroups.Entries = other.Entries

\* C5: WriteLagerFormatTo returns a non-nil error whenever a write to the
\* sink failed during the dump, and nil only if every write succeeded.
WriteErrorReturned_C5 ==
    op = "WriteLagerFormatTo" =>
        ((\E i \in 1..Len(w.log) : ~w.log[i].ok) <=> err # Nil)

\* C6: during WriteLagerFormatTo no write to the sink is attempted after a
\* write has failed, the failed write of a key line included.
NoWriteAfterFailure_C6 ==
    op = "WriteLagerFormatTo" =>
        \A i \in 1..Len(w.log) : ~w.log[i].ok => i = Len(w.log)

\* The positions in group i of the entries the anchor matcher accepts.
MatchPositions(i) ==
    {j \in 1..Len(Entries[i]) : Match(description[1].Matcher, Entries[i][j])}

\* Every entry of every group that the anchor matcher accepts.
AnchorMatches ==
    UNION {{Entries[i][j] : j \in MatchPositions(i)} : i \in 1..Len(Entries)}

\* The groups that hold an entry the anchor matcher accepts.
MatchingGroups == {i \in 1..Len(Entries) : MatchPositions(i) # {}}

\* Group i's candidate: its first matching entry in the group's own order.
Candidate(i) ==
    Entries[i][CHOOSE j \in MatchPositions(i) : \A k \in MatchPositions(i) : j <= k]

Succeeded == op = "ConstructTimelines" /\ err = Nil

\* C7 as claimed: whenever ConstructTimelines succeeds, the anchor is an
\* entry matching description[0].Matcher that no matching entry of any group
\* is earlier than, whatever the groups hold and in whatever order.
AnchorGloballyEarliest_C7 ==
    Succeeded =>
        /\ firstEntry \in AnchorMatches
        /\ \A e \in AnchorMatches : ~Less(e, firstEntry)

\* No group holds a matching entry earlier than its first matching entry.
FirstMatchIsEarliest ==
    \A i \in MatchingGroups :
       \A j \in MatchPositions(i) : ~Less(Entries[i][j], Candidate(i))

\* C7 as amended: whenever ConstructTimelines succeeds, the anchor is one of
\* the per-group first matches and none of them is earlier; it is the
\* globally earliest matching entry whenever no group holds a matching entry
\* earlier than the group's first matching one.
AnchorEarliestCandidate_C7 ==
    Succeeded =>
        /\ firstEntry \in {Candidate(i) : i \in MatchingGroups}
        /\ \A i \in MatchingGroups : ~Less(Candidate(i), firstEntry)
        /\ FirstMatchIsEarliest =>
              \A e \in AnchorMatches : ~Less(e, firstEntry)

\* Two groups with a match each, the later group's the earlier in time, and
\* a group with a second matching entry after its first.
Witness_C7 ==
    /\ Succeeded
    /\ MatchingGroups = {1, 2}
    /\ Less(Candidate(2), Candidate(1))
    /\ firstEntry = Candidate(2)
    /\ \E i \in MatchingGroups : Cardinality(MatchPositions(i)) = 2
    /\ FirstMatchIsEarliest

\* The permutations of 1..n.
Perms(n) == {p \in [1..n -> 1..n] : \A i, j \in 1..n : p[i] = p[j] => i = j}

\* The map holding m's groups in the key order p.
Reordered(m, p) ==
    [Keys |-> [i \in 1..Len(m.Keys) |-> m.Keys[p[i]]],
     Entries |-> [i \in 1..Len(m.Keys) |-> m.Entries[p[i]]],
     lookup |-> [k \in DOMAIN m.lookup |->
                   (CHOOSE i \in 1..Len(m.Keys) : m.Keys[p[i]] = k) - 1]]

CandidateTimesDistinct ==
    \A i, j \in MatchingGroups :
       Candidate(i).Timestamp = Candidate(j).Timestamp => i = j

\* C8: anchor selection does not depend on group order: when the candidates
\* have distinct times, every map holding the same groups in another key
\* order selects the same anchor, the candidate with the smallest time.
AnchorOrderIndependent_C8 ==
    (Succeeded /\ CandidateTimesDistinct) =>
        /\ \A i \in MatchingGroups : firstEntry.Timestamp <= Candidate(i).Timestamp
        /\ \A p \in Perms(Len(Keys)) :
              first(Reordered(g, p), description[1].Matcher)
                  = {[entry |-> firstEntry, found |-> TRUE]}

\* Two groups whose candidates differ in time, the later one first in Keys.
Witness_C8 ==
    /\ Succeeded
    /\ CandidateTimesDistinct
    /\ MatchingGroups = {1, 2}
    /\ Less(Candidate(2), Candidate(1))
    /\ firstEntry = Candidate(2)

\* C9: ConstructTimelines fails exactly when no entry of any group matches
\* description[0].Matcher (a map without groups included): then it returns a
\* non-nil error and no timelines; when some entry matches the error is nil.
AnchorNotFound_C9 ==
    op = "ConstructTimelines" =>
        IF AnchorMatches = {}
        THEN err # Nil /\ timelines = <<>>
        ELSE err = Nil

\* A map with groups and entries, none of which the anchor matcher accepts.
Witness_C9 ==
    /\ op = "ConstructTimelines"
    /\ Len(Keys) = 2
    /\ \A i \in 1..Len(Entries) : Len(Entries[i]) > 0
    /\ description[1].Matcher # {}
    /\ err # Nil
    /\ timelines = <<>>

\* C10: a successful ConstructTimelines on a map with n groups returns n
\* timelines, the i-th built from Entries[i] with the shared anchor and
\* annotated Keys[i], groups without an anchor match included.
TimelinePerGroup_C10 ==
    Succeeded =>
        /\ Len(timelines) = Len(Keys)
        /\ \A i \in 1..Len(timelines) :
              /\ timelines[i].Annotation = Keys[i]
              /\ timelines[i] =
                    [EntriesConstructTimeline(Entries[i], description, firstEntry)
                        EXCEPT !.Annotation = Keys[i]]

\* Two groups with different entries, the first without an anchor match.
Witness_C10 ==
    /\ Succeeded
    /\ Len(Keys) = 2
    /\ MatchingGroups = {2}
    /\ Len(Entries[1]) > 0
    /\ Len(timelines) = 2

\* The groups of g as the visitor receives them, in index order.
Groups == [i \in 1..Len(Keys) |-> <<Keys[i], Entries[i]>>]

\* C11: EachGroup calls the visitor on (Keys[i], Entries[i]) in increasing
\* index order; if the visitor fails at index j, EachGroup returns that error
\* and the visitor is not called for any later index; if it never fails, every
\* group is visited once and EachGroup returns nil.
EachGroupOrder_C11 ==
    op = "EachGroup" =>
        LET failing == failOn \cap (1..Len(Keys))
        IN IF failing = {}
           THEN visited = Groups /\ err = Nil
           ELSE LET j == CHOOSE n \in failing : \A k \in failing : n <= k
                IN /\ visited = SubSeq(Groups, 1, j)
                   /\ err = "visit " \o ToString(j) \o " failed"

\* A visitor that fails on the first of two groups: the second is not visited.
Witness_C11 ==
    /\ op = "EachGroup"
    /\ Len(Keys) = 2
    /\ failOn = {1, 2}
    /\ Len(visited) = 1
    /\ err # Nil

\* The positions of g's groups that hold an entry matcher accepts.
KeptGroups ==
    {i \in 1..Len(Keys) : \E j \in 1..Len(Entries[i]) : Entries[i][j] \in matcher}

\* The elements of s at the positions in keep, in their order in s.
Restrict(s, keep) ==
    LET run[i \in 0..Len(s)] ==
            IF i = 0 THEN <<>>
            ELSE IF i \in keep THEN Append(run[i - 1], s[i]) ELSE run[i - 1]
    IN run[Len(s)]

\* The entries of es that matcher accepts, in their order in es.
Accepted(es) == Restrict(es, {j \in 1..Len(es) : es[j] \in matcher})

\* C12: Filter(matcher) returns a map whose Keys is the subsequence of the
\* receiver's Keys whose group has a matching entry, each with the matching
\* entries of its group in order; no group of the result is empty, and a key
\* all of whose entries are excluded is absent (Lookup reports not found).
FilterResult_C12 ==
    op = "Filter" =>
        /\ filteredGroups.Keys = Restrict(Keys, KeptGroups)
        /\ filteredGroups.Entries =
              Restrict([i \in 1..Len(Keys) |-> Accepted(Entries[i])], KeptGroups)
        /\ \A i \in 1..Len(filteredGroups.Entries) :
              Len(filteredGroups.Entries[i]) > 0
        /\ \A i \in 1..Len(Keys) :
              IF i \in KeptGroups
              THEN Lookup(filteredGroups, Keys[i])
                      = [entries |-> Accepted(Entries[i]), found |-> TRUE]
              ELSE ~Lookup(filteredGroups, Keys[i]).found

\* The first group loses all its entries and its key; the second keeps one
\* of its two entries.
Witness_C12 ==
    /\ op = "Filter"
    /\ Len(Keys) = 2
    /\ Len(Entries[1]) > 0
    /\ Len(Entries[2]) = 2
    /\ filteredGroups.Keys = <<Keys[2]>>
    /\ filteredGroups.Entries = <<<<Entries[2][2]>>>>
    /\ ~Lookup(filteredGroups, Keys[1]).found

\* C13: Filter does not mutate its receiver: Keys, Entries and lookup of g
\* are the same after g.Filter(matcher) as before; later appends on the
\* returned map leave g as it is, and later appends on g leave the returned
\* map as it is.
FilterFrame_C13 ==
    [][/\ op' = "Filter" => g' = g
       /\ op' = "filteredGroups.AppendEntries" => g' = g
       /\ op' = "AppendEntries after Filter" => filteredGroups' = filteredGroups]_vars

\* After a Filter that kept a group, both the receiver and the returned map
\* were appended to, under a key they share.
Witness_C13 ==
    /\ op \in {"AppendEntries after Filter", "filteredGroups.AppendEntries"}
    /\ Len(fcalls) = 1
    /\ Len(calls) = MaxCalls
    /\ fcalls[1][1] = calls[Len(calls)][1]
    /\ fcalls[1][1] \in DOMAIN lookup
    /\ Lookup(filteredGroups, fcalls[1][1]).entries
          # Lookup(g, fcalls[1][1]).entries
    /\ Len(Lookup(filteredGroups, fcalls[1][1]).entries) > 1
    /\ Lookup(g, fcalls[1][1]).entries = AppendedUnder(fcalls[1][1])

\* s is a prefix of t.
IsPrefix(s, t) == Len(s) <= Len(t) /\ SubSeq(t, 1, Len(s)) = s

\* C14: a map only grows by append: every Append/AppendEntries step leaves
\* the previous Keys a prefix of the new Keys (at most one key added, at the
\* end), leaves lookup[k] of every key already present as it was, changes the
\* group of the appended key only, and leaves that group's previous entries a
\* prefix of its new entries; no step removes a key or an entry.
GrowsOnly_C14 ==
    [][/\ IsPrefix(Keys, Keys')
       /\ Len(Keys') <= Len(Keys) + 1
       /\ \A k \in DOMAIN lookup : k \in DOMAIN lookup' /\ lookup'[k] = lookup[k]
       /\ \A i \in 1..Len(Entries) : IsPrefix(Entries[i], Entries'[i])
       /\ calls' # calls =>
             LET key == calls'[Len(calls')][1]
                 entries == calls'[Len(calls')][2]
             IN /\ key \in DOMAIN lookup'
                /\ Keys' = IF key \in DOMAIN lookup THEN Keys ELSE Append(Keys, key)
                /\ \A i \in 1..Len(Entries) :
                      i # lookup'[key] + 1 => Entries'[i] = Entries[i]
                /\ Entries'[lookup'[key] + 1] =
                      (IF key \in DOMAIN lookup
                       THEN Entries[lookup[key] + 1] ELSE <<>>) \o entries
       /\ calls' = calls => g' = g]_vars

\* Three appends: to a first key, to a second, and to the first again.
Witness_C14 ==
    /\ op = "AppendEntries"
    /\ Len(calls) = 3
    /\ Keys = <<calls[1][1], calls[2][1]>>
    /\ calls[3][1] = calls[1][1]
    /\ Len(calls[1][2]) > 0
    /\ Len(calls[2][2]) > 0
    /\ Len(calls[3][2]) > 0
    /\ Entries[1] = calls[1][2] \o calls[3][2]

\* The per-group candidates in group order, groups without a match left out.
Candidates ==
    LET run[i \in 0..Len(Entries)] ==
            IF i = 0 THEN <<>>
            ELSE IF i \in MatchingGroups
                 THEN Append(run[i - 1], Candidate(i)) ELSE run[i - 1]
    IN run[Len(Entries)]

\* C15: the anchor of ConstructTimelines is found in two phases: one
\* candidate per group, the group's first entry in its own order matching
\* description[0].Matcher (none for a group without a match), then the least
\* candidate in the entries' natural order; that one entry is the anchor of
\* every group's timeline, never a per-group anchor.
SharedAnchor_C15 ==
    Succeeded =>
        /\ Firsts(g, description[1].Matcher) = Candidates
        /\ \E n \in 1..Len(Candidates) :
              /\ firstEntry = Candidates[n]
              /\ \A k \in 1..Len(Candidates) : ~Less(Candidates[k], firstEntry)
        /\ \A i \in 1..Len(timelines) : timelines[i].ZeroEntry = firstEntry

\* Two groups, the first with a later match before an earlier one, the
\* second with a match in between: the anchor is the second group's, also
\* in the first group's timeline.
Witness_C15 ==
    /\ Succeeded
    /\ MatchingGroups = {1, 2}
    /\ Cardinality(MatchPositions(1)) = 2
    /\ Less(Candidate(2), Candidate(1))
    /\ \E j \in MatchPositions(1) : Less(Entries[1][j], Candidate(1))
    /\ Len(timelines) = 2
    /\ timelines[1].ZeroEntry = Candidate(2)
    /\ timelines[1].ZeroEntry # Candidate(1)

\* The last append call had no entries and a key no earlier call had used.
EmptyAppendOfNewKey ==
    /\ op = "AppendEntries"
    /\ Len(calls) > 0
    /\ calls[Len(calls)][2] = <<>>
    /\ \A i \in 1..(Len(calls) - 1) : calls[i][1] # calls[Len(calls)][1]

\* C16: AppendEntries(k, entries) with no entries on an unseen key k still
\* registers k: k is then the last element of Keys, its group is empty and
\* Lookup(k) returns found with no entries; a map built by append may so hold
\* empty groups, which a map returned by Filter never does.
EmptyAppend_C16 ==
    /\ EmptyAppendOfNewKey =>
          LET k == calls[Len(calls)][1]
          IN /\ Len(Keys) > 0
             /\ Keys[Len(Keys)] = k
             /\ Entries[Len(Entries)] = <<>>
             /\ Lookup(g, k) = [entries |-> <<>>, found |-> TRUE]
    /\ op = "Filter" =>
          \A i \in 1..Len(filteredGroups.Entries) :
             Len(filteredGroups.Entries[i]) > 0

\* A second key registered by an append without entries, after a first key
\* with entries.
Witness_C16 ==
    /\ EmptyAppendOfNewKey
    /\ Len(Keys) = 2
    /\ Len(Entries[1]) > 0
    /\ Entries[2] = <<>>
    /\ Lookup(g, Keys[2]).found

\* What ConstructTimelines(desc) can return on the map m.
Returned(m, desc) ==
    {ConstructTimelinesWith(m, desc, r) : r \in first(m, desc[1].Matcher)}

FilterIdempotent_C18 ==
    op = "Filter" =>
        LET again == Filter(filteredGroups, matcher)
        IN /\ again.Keys = filteredGroups.Keys
           /\ again.Entries = filteredGroups.Entries
           /\ \A k \in KeyValues :
                 Lookup(again, k) = Lookup(filteredGroups, k)

\* A Filter that dropped a group and part of another, so that its result
\* differs from the receiver in keys and in entries.
Witness_C18 ==
    /\ op = "Filter"
    /\ Len(Keys) = 2
    /\ Len(filteredGroups.Keys) = 1
    /\ Len(Lookup(g, filteredGroups.Keys[1]).entries) = 2
    /\ Len(filteredGroups.Entries[1]) = 1
    /\ Filter(filteredGroups, matcher).Entries = filteredGroups.Entries

\* The groups whose candidate no other group's candidate is earlier than.
LeastGroups ==
    {i \in MatchingGroups : \A j \in MatchingGroups : ~Less(Candidate(j), Candidate(i))}

\* Several candidates are exactly tied for the anchor.
AnchorTied == Cardinality(LeastGroups) > 1

====
